---- MODULE Spec2Model ----
(***************************************************************************)
(* Model of DeltaLevel.py: the calibration controller thread               *)
(* (sendCommands and the functions it calls), the BasicHandler callbacks   *)
(* run by the printer link's thread, and the threading.Condition that      *)
(* joins them.                                                             *)
(*                                                                         *)
(* Lengths are fixed-point integers, 1 unit = 1/Scale mm.  The printer and *)
(* the printcore link are the environment: a command handed to send_now    *)
(* puts the printer's reply lines on `wire`, and the link's thread         *)
(* delivers them one by one through on_recv.                               *)
(***************************************************************************)
EXTENDS Integers, Sequences, FiniteSets, TLC

\* ------------------------------------------------------------------ bounds
MaxPasses == 2      \* calls of fixDeltaCalibration explored per session
MaxReading == 2     \* probe readings drawn from 0..MaxReading steps of 0.05 mm

MaxRaces  == 1      \* times the link's thread runs ahead of the controller

\* ------------------------------------------------------- program constants
Scale == 10 ^ 5                          \* fixed-point units per millimetre
PREHEAT_BED == TRUE
RESET_DEFAULTS == TRUE
BED_TEMP_C == 50
TOLERANCE_MM == (35 * Scale) \div 1000
DEFAULT_DELTA_RADIUS == (617 * Scale) \div 10
Z_OFFSET == (55 * Scale) \div 100
AutolevelWaits == 13                     \* for x in range(0, 13)
ProbeRuns == 3                           \* for i in range(0, 3)
ResultCount == 8                         \* len(results) == 8

\* ----------------------------------------------------------------- helpers
Abs(v) == IF v < 0 THEN -v ELSE v

\* '{0:.4f}'.format(v) read back as a number: v rounded to 4 decimals
\* (half to even), in fixed-point units.
Fmt4(v) ==
    LET step == Scale \div 10000
        q == Abs(v) \div step
        r == Abs(v) % step
        up == (2 * r > step) \/ (2 * r = step /\ q % 2 = 1)
        m == (IF up THEN q + 1 ELSE q) * step
    IN  IF v < 0 THEN -m ELSE m

\* A line of the printer as the regular expressions of the program see it.
\*   "ok"    matches CMD_COMPLETE_REGEX
\*   "bed"   matches G29_REGEX, c is the text of its Z group
\*   "m666"  matches M666_REGEX, a, b, c are its X, Y, Z groups
\*   "m665"  matches M665_REGEX, a, b, c are its L, R, S groups
\*   "other" matches none of them; "online" is the link's online event
\* cmd is the number of the command the printer was replying to (0 before
\* the first command); the program never reads it.
Line(k, a, b, c, n) == [k |-> k, a |-> a, b |-> b, c |-> c, cmd |-> n]
NoLine == Line("unset", 0, 0, 0, 0)

IsComplete(l) == l.k = "ok"
IsG29(l) == l.k = "bed"
IsM666(l) == l.k = "m666"
IsM665(l) == l.k = "m665"

\* A command as formatted by the program.
Cmd(op, x, y, z, r, s) == [op |-> op, x |-> x, y |-> y, z |-> z, r |-> r, s |-> s]
NoCmd == Cmd("none", 0, 0, 0, 0, 0)

\* float(text) of a regex group.  A line's fields hold the number its text
\* denotes, in fixed-point units, which is what float() yields for it.
Float(t) == t

\* ------------------------------------------------------------ data records
Axes == {"z_avg", "x_avg", "y_avg"}
NoAxis == "None"

Unset == [set |-> FALSE, a |-> 0, b |-> 0, c |-> 0]

\* The dict literal of fixDeltaCalibration.  M666 and M665 are the keys
\* queryPrinter adds (a = X, b = Y, c = Z for M666; a = L, b = R, c = S for
\* M665); set = FALSE stands for the key being absent.
NewData ==
    [datapoints |-> <<>>, high_point |-> 0, c_offset |-> 0,
     z_avg |-> 0, z_var |-> 0, x_avg |-> 0, x_var |-> 0,
     y_avg |-> 0, y_var |-> 0, c_avg |-> 0, c_var |-> 0,
     M666 |-> Unset, M665 |-> Unset]

\* The datapoint fixDeltaCalibration builds from the 8 results.
Datapoint(r) ==
    [z1 |-> r[1], z2 |-> r[2], z_avg |-> (r[1] + r[2]) \div 2,
     x1 |-> r[3], x2 |-> r[4], x_avg |-> (r[3] + r[4]) \div 2,
     y1 |-> r[5], y2 |-> r[6], y_avg |-> (r[5] + r[6]) \div 2,
     c1 |-> r[7], c2 |-> r[8], c_avg |-> (r[7] + r[8]) \div 2]

\* total += d[f1]; total += d[f2] over the datapoints
RECURSIVE Total(_, _, _)
Total(dps, f1, f2) ==
    IF dps = <<>> THEN 0
    ELSE dps[1][f1] + dps[1][f2] + Total(Tail(dps), f1, f2)

\* total += pow(d[f1] - avg, 2); total += pow(d[f2] - avg, 2)
RECURSIVE SqTotal(_, _, _, _)
SqTotal(dps, f1, f2, avg) ==
    IF dps = <<>> THEN 0
    ELSE (dps[1][f1] - avg) * (dps[1][f1] - avg)
           + (dps[1][f2] - avg) * (dps[1][f2] - avg)
           + SqTotal(Tail(dps), f1, f2, avg)

\* RefAxis choosing the axis anew on every call
RefAxisEveryCall(ref, z_avg, x_avg, y_avg) ==
    LET r1 == IF x_avg > z_avg THEN "x_avg" ELSE "z_avg"
        m1 == IF r1 = "x_avg" THEN x_avg ELSE z_avg
    IN  IF y_avg > m1 THEN "y_avg" ELSE r1


\* RefAxis with the comparisons turned round (the lowest axis)
RefAxisLowest(ref, z_avg, x_avg, y_avg) ==
    IF ref # NoAxis THEN ref
    ELSE LET r1 == IF x_avg < z_avg THEN "x_avg" ELSE "z_avg"
             m1 == IF r1 = "x_avg" THEN x_avg ELSE z_avg
         IN  IF y_avg < m1 THEN "y_avg" ELSE r1

\* status['ref_axis'] as computeVariance leaves it, given the averages
RefAxis(ref, z_avg, x_avg, y_avg) ==
    IF ref # NoAxis THEN ref
    ELSE LET r1 == IF x_avg > z_avg THEN "x_avg" ELSE "z_avg"
             m1 == IF r1 = "x_avg" THEN x_avg ELSE z_avg
         IN  IF y_avg > m1 THEN "y_avg" ELSE r1



\* computeVariance taking high_point from the highest mean of this call
computeVarianceHighest(d, st) ==
    LET dps == d.datapoints
        dp_count == Len(dps) * 2
        z_avg == Total(dps, "z1", "z2") \div dp_count
        x_avg == Total(dps, "x1", "x2") \div dp_count
        y_avg == Total(dps, "y1", "y2") \div dp_count
        c_avg == Total(dps, "c1", "c2") \div dp_count
        ref == RefAxis(st.ref_axis, z_avg, x_avg, y_avg)
        m1 == IF x_avg > z_avg THEN x_avg ELSE z_avg
        high == IF y_avg > m1 THEN y_avg ELSE m1
    IN  [data |-> [d EXCEPT !.z_avg = z_avg, !.x_avg = x_avg,
                            !.y_avg = y_avg, !.c_avg = c_avg,
                            !.high_point = high,
                            !.c_offset = c_avg - high,
                            !.z_var = SqTotal(dps, "z1", "z2", z_avg) \div dp_count,
                            !.x_var = SqTotal(dps, "x1", "x2", x_avg) \div dp_count,
                            !.y_var = SqTotal(dps, "y1", "y2", y_avg) \div dp_count,
                            !.c_var = SqTotal(dps, "c1", "c2", c_avg) \div dp_count],
         status |-> [st EXCEPT !.ref_axis = ref]]

\* computeVariance dividing the squared deviations by dp_count - 1
computeVarianceSample(d, st) ==
    LET dps == d.datapoints
        dp_count == Len(dps) * 2
        z_avg == Total(dps, "z1", "z2") \div dp_count
        x_avg == Total(dps, "x1", "x2") \div dp_count
        y_avg == Total(dps, "y1", "y2") \div dp_count
        c_avg == Total(dps, "c1", "c2") \div dp_count
        ref == RefAxis(st.ref_axis, z_avg, x_avg, y_avg)
        high == CASE ref = "z_avg" -> z_avg
                  [] ref = "x_avg" -> x_avg
                  [] ref = "y_avg" -> y_avg
    IN  [data |-> [d EXCEPT !.z_avg = z_avg, !.x_avg = x_avg,
                            !.y_avg = y_avg, !.c_avg = c_avg,
                            !.high_point = high,
                            !.c_offset = c_avg - high,
                            !.z_var = SqTotal(dps, "z1", "z2", z_avg) \div (dp_count - 1),
                            !.x_var = SqTotal(dps, "x1", "x2", x_avg) \div (dp_count - 1),
                            !.y_var = SqTotal(dps, "y1", "y2", y_avg) \div (dp_count - 1),
                            !.c_var = SqTotal(dps, "c1", "c2", c_avg) \div (dp_count - 1)],
         status |-> [st EXCEPT !.ref_axis = ref]]

\* computeVariance(data, status): the two dicts as it leaves them.  The
\* divisions are exact on readings that are multiples of 2 units.
computeVariance(d, st) ==
    LET dps == d.datapoints
        dp_count == Len(dps) * 2
        z_avg == Total(dps, "z1", "z2") \div dp_count
        x_avg == Total(dps, "x1", "x2") \div dp_count
        y_avg == Total(dps, "y1", "y2") \div dp_count
        c_avg == Total(dps, "c1", "c2") \div dp_count
        ref == RefAxis(st.ref_axis, z_avg, x_avg, y_avg)
        high == CASE ref = "z_avg" -> z_avg
                  [] ref = "x_avg" -> x_avg
                  [] ref = "y_avg" -> y_avg
    IN  [data |-> [d EXCEPT !.z_avg = z_avg, !.x_avg = x_avg,
                            !.y_avg = y_avg, !.c_avg = c_avg,
                            !.high_point = high,
                            !.c_offset = c_avg - high,
                            !.z_var = SqTotal(dps, "z1", "z2", z_avg) \div dp_count,
                            !.x_var = SqTotal(dps, "x1", "x2", x_avg) \div dp_count,
                            !.y_var = SqTotal(dps, "y1", "y2", y_avg) \div dp_count,
                            !.c_var = SqTotal(dps, "c1", "c2", c_avg) \div dp_count],
         status |-> [st EXCEPT !.ref_axis = ref]]

\* runAdjustments' decision: "endstops", "radius" or "none"
adjust_endstops(d) ==
    \/ Abs(d.high_point - d.z_avg) > TOLERANCE_MM
    \/ Abs(d.high_point - d.x_avg) > TOLERANCE_MM
    \/ Abs(d.high_point - d.y_avg) > TOLERANCE_MM

\* Adjustment without the c_offset test
AdjustmentNoRadius(d) == IF adjust_endstops(d) THEN "endstops" ELSE "none"

\* Adjustment with the c_offset test first
AdjustmentRadiusFirst(d) ==
    IF Abs(d.c_offset) > TOLERANCE_MM THEN "radius"
    ELSE IF adjust_endstops(d) THEN "endstops"
    ELSE "none"

Adjustment(d) ==
    IF adjust_endstops(d) THEN "endstops"
    ELSE IF Abs(d.c_offset) > TOLERANCE_MM THEN "radius"
    ELSE "none"


\* OffsetsCmd with the offsets in the order of the format arguments (Z, X, Y)
OffsetsCmdPositional(d) ==
    LET z_offset == d.z_avg - d.high_point
        x_offset == d.x_avg - d.high_point
        y_offset == d.y_avg - d.high_point
    IN  Cmd("M666", Fmt4(d.M666.a + z_offset), Fmt4(d.M666.b + x_offset),
            Fmt4(d.M666.c + y_offset), 0, 0)

\* the command adjustOffsets formats
OffsetsCmd(d) ==
    LET z_offset == d.z_avg - d.high_point
        x_offset == d.x_avg - d.high_point
        y_offset == d.y_avg - d.high_point
    IN  Cmd("M666", Fmt4(d.M666.a + x_offset), Fmt4(d.M666.b + y_offset),
            Fmt4(d.M666.c + z_offset), 0, 0)

\* the command adjustDeltaRadius formats
RadiusCmd(d) == Cmd("M665", 0, 0, 0, Fmt4(d.M665.b - (d.c_offset * 2)), 0)


\* ZOffsetCmd without the comparison against y_avg
ZOffsetCmdNoY(d) ==
    LET hp == IF d.x_avg > d.z_avg THEN d.x_avg ELSE d.z_avg
        zo == -(hp + Z_OFFSET)
    IN  Cmd("M206", 0, 0, Fmt4(zo), 0, 0)

\* the command set_z_offset formats
ZOffsetCmd(d) ==
    LET hp1 == IF d.x_avg > d.z_avg THEN d.x_avg ELSE d.z_avg
        hp == IF d.y_avg > hp1 THEN d.y_avg ELSE hp1
        zo == -(hp + Z_OFFSET)
    IN  Cmd("M206", 0, 0, Fmt4(zo), 0, 0)

\* ------------------------------------------------------------ the printer
mm(thousandths) == (thousandths * Scale) \div 1000

\* Probe passes the printer can report: z1, z2, x1, x2, y1, y2, c1, c2.
SampleWorked == <<mm(100), mm(120), mm(80), mm(90), mm(50), mm(60), mm(90), mm(90)>>
SampleLevel  == <<mm(100), mm(102), mm(90), mm(92), mm(94), mm(96), mm(97), mm(99)>>
SampleRadius == <<mm(100), mm(102), mm(98), mm(104), mm(96), mm(106), mm(180), mm(200)>>
SampleXHigh  == <<mm(20), mm(40), mm(140), mm(160), mm(100), mm(104), mm(22), mm(24)>>
SampleYHigh  == <<mm(60), mm(64), mm(70), mm(74), mm(90), mm(94), mm(80), mm(84)>>
Samples == {SampleWorked, SampleLevel, SampleRadius, SampleXHigh, SampleYHigh}

\* Settings the printer can report: M666 X, Y, Z and M665 L, R, S.
SettingsTrimmed ==
    [m666 |-> <<-mm(250), -mm(100), mm(50)>>,
     m665 |-> <<120 * Scale, DEFAULT_DELTA_RADIUS - mm(400), 100 * Scale>>]
SettingsDefault ==
    [m666 |-> <<0, 0, 0>>,
     m665 |-> <<120 * Scale, DEFAULT_DELTA_RADIUS, 100 * Scale>>]

Ok(n) == Line("ok", 0, 0, 0, n)
Other(n) == Line("other", 0, 0, 0, n)
Bed(s, n) == [j \in 1..8 |-> Line("bed", 0, 0, s[j], n)]
M666Line(t, n) == Line("m666", t.m666[1], t.m666[2], t.m666[3], n)
M665Line(t, n) == Line("m665", t.m665[1], t.m665[2], t.m665[3], n)

\* What the link delivers after connect: the printer's greeting line, then
\* the link's online event.
Greeting == <<Line("other", 0, 0, 0, 0), Line("online", 0, 0, 0, 0)>>

\* Replies of the printer to command number n.
ReplyOk(n) == { <<Ok(n)>> }
ReplyM190(n) == { <<Ok(n)>>, <<Other(n), Ok(n)>> }
\* G29: the 8 probe reports and the marker; a pass one report short; a pass
\* with 5 more lines, so that 13 lines come before the marker.
ReplyG29(n) ==
    { Bed(s, n) \o <<Ok(n)>> : s \in Samples }
      \cup { SubSeq(Bed(SampleLevel, n), 1, 7) \o <<Ok(n)>>,
             [j \in 1..5 |-> Other(n)] \o Bed(SampleLevel, n) \o <<Ok(n)>> }
\* M503: both reports in either order, among other lines, or one missing.
ReplyM503(n) ==
    { <<M666Line(SettingsTrimmed, n), M665Line(SettingsTrimmed, n), Ok(n)>>,
      <<M665Line(SettingsTrimmed, n), M666Line(SettingsTrimmed, n), Ok(n)>>,
      <<Other(n), M666Line(SettingsTrimmed, n), Other(n),
        M665Line(SettingsTrimmed, n), Ok(n)>>,
      <<M666Line(SettingsTrimmed, n), Ok(n)>>,
      <<M665Line(SettingsTrimmed, n), Ok(n)>>,
      <<M666Line(SettingsDefault, n), M665Line(SettingsDefault, n), Ok(n)>> }

\* ------------------------------------------------------------------- state
VARIABLES
    pc,         \* where the controller thread (sendCommands) stands
    cstate,     \* "run", "wait" (blocked in lock.wait()) or "woken" (notified)
    last_line,  \* handler.last_line
    error,      \* handler.error
    wire,       \* events the link has still to deliver, oldest first
    lpc,        \* the link's thread: "idle", or "notify" inside on_recv
    results,    \* run_autolevel's results
    x,          \* run_autolevel's loop variable
    i,          \* fixDeltaCalibration's loop variable
    data,       \* fixDeltaCalibration's data, and sendCommands' after it returns
    status,     \* sendCommands' status
    sent,       \* the commands handed to printer.send_now, by name, in order
    lastSent,   \* the last of them with its arguments
    observed,   \* the lines the running receive loop has read from last_line
    wokenBy,    \* the command number of the event whose notify woke the controller
    races,      \* times the link ran ahead of the controller
    passes      \* calls of fixDeltaCalibration

vars == <<pc, cstate, last_line, error, wire, lpc, results, x, i, data, status,
          sent, lastSent, observed, wokenBy, races, passes>>

handlerVars == <<last_line, error>>
linkVars == <<wire, lpc>>
localVars == <<results, x, i, data, status>>
ghostVars == <<observed, wokenBy, races, passes>>

Finished == {"done", "raised"}

Init ==
    /\ pc = "online1"
    /\ cstate = "run"
    /\ last_line = NoLine
    /\ error = FALSE
    /\ wire = Greeting
    /\ lpc = "idle"
    /\ results = <<>>
    /\ x = 0
    /\ i = 0
    /\ data = NewData
    /\ status = [converged |-> FALSE, ref_axis |-> NoAxis]
    /\ sent = <<>>
    /\ lastSent = NoCmd
    /\ observed = <<>>
    /\ wokenBy = 0
    /\ races = 0
    /\ passes = 0

\* ------------------------------------------------- the link and the handler

\* Notify that is kept for a controller which is about to wait
NotifySticky(n) ==
    IF cstate = "wait" \/ (cstate = "run" /\ pc \in {"sd1w", "sd2w", "sd3w",
                              "hbw", "ghw", "ralw", "qpw", "aow", "adrw",
                              "szow", "ssw", "ghfw"})
    THEN /\ cstate' = "woken"
         /\ wokenBy' = n
         /\ races' = races
    ELSE /\ pc \notin Finished => races < MaxRaces
         /\ races' = IF pc \in Finished THEN races ELSE races + 1
         /\ UNCHANGED <<cstate, wokenBy>>

\* lock.notify() under the lock, on behalf of an event tagged n: it wakes the
\* controller if it is blocked in lock.wait() and is lost otherwise.
Notify(n) ==
    IF cstate = "wait"
    THEN /\ cstate' = "woken"
         /\ wokenBy' = n
         /\ races' = races
    ELSE /\ pc \notin Finished => races < MaxRaces
         /\ races' = IF pc \in Finished THEN races ELSE races + 1
         /\ UNCHANGED <<cstate, wokenBy>>

\* on_recv up to the lock: the slot is written without the lock held.
on_recv ==
    /\ lpc = "idle"
    /\ wire # <<>>
    /\ Head(wire).k # "online"
    /\ cstate = "woken" => races < MaxRaces
    /\ races' = IF cstate = "woken" THEN races + 1 ELSE races
    /\ last_line' = Head(wire)
    /\ error' = FALSE
    /\ wire' = Tail(wire)
    /\ lpc' = "notify"
    /\ UNCHANGED <<pc, cstate, localVars, sent, lastSent, observed, wokenBy,
                   passes>>

\* on_recv from "with self.lock" on
on_recv_notify ==
    /\ lpc = "notify"
    /\ Notify(last_line.cmd)
    /\ lpc' = "idle"
    /\ UNCHANGED <<pc, handlerVars, wire, localVars, sent, lastSent, observed,
                   passes>>

on_online ==
    /\ lpc = "idle"
    /\ wire # <<>>
    /\ Head(wire).k = "online"
    /\ error' = FALSE
    /\ Notify(Head(wire).cmd)
    /\ wire' = Tail(wire)
    /\ UNCHANGED <<pc, last_line, lpc, localVars, sent, lastSent, observed,
                   passes>>

\* on_error: the flag is set, then "line" is an unbound name and the handler
\* raises NameError before it writes the slot or notifies.
on_error ==
    /\ lpc = "idle"
    /\ error' = TRUE
    /\ UNCHANGED <<pc, cstate, last_line, linkVars, localVars, sent, lastSent,
                   ghostVars>>

\* ----------------------------------------------------------- the controller
WaitPcs == {"online1", "online2", "sd1w", "sd2w", "sd3w", "hbw", "ghw", "ralw",
            "qpw", "aow", "adrw", "szow", "ssw", "ghfw"}

\* lock_wait with a timeout: the wait is entered, or it expires by itself
lock_wait_timeout ==
    /\ pc \in WaitPcs
    /\ \/ cstate = "run" /\ cstate' = "wait"
       \/ cstate = "wait" /\ cstate' = "woken"
    /\ UNCHANGED <<pc, handlerVars, linkVars, localVars, sent, lastSent,
                   ghostVars>>

\* "with lock: lock.wait()": the controller takes the lock and blocks.
lock_wait ==
    /\ cstate = "run"
    /\ pc \in WaitPcs
    /\ cstate' = "wait"
    /\ UNCHANGED <<pc, handlerVars, linkVars, localVars, sent, lastSent,
                   ghostVars>>

\* printer.send_now(c): the printer gets command c and one of its replies
\* goes on the wire.
send_now(c, replies) ==
    /\ sent' = Append(sent, c.op)
    /\ lastSent' = c
    /\ \E r \in replies : wire' = wire \o r

AfterDefaults == IF PREHEAT_BED THEN "hb" ELSE "loop"
AfterOnline == IF RESET_DEFAULTS THEN "sd1" ELSE AfterDefaults

\* sendCommands, the two waits for the printer to come online.  Both are in
\* one "with lock" block: the lock is not released between them.
sendCommands_online ==
    /\ cstate = "woken"
    /\ \/ /\ pc = "online1"
          /\ pc' = "online2"
          /\ cstate' = "wait"
       \/ /\ pc = "online2"
          /\ pc' = AfterOnline
          /\ cstate' = "run"
    /\ UNCHANGED <<handlerVars, linkVars, localVars, sent, lastSent, ghostVars>>

set_defaults_send ==
    /\ cstate = "run"
    /\ \/ /\ pc = "sd1"
          /\ send_now(Cmd("M666", 0, 0, 0, 0, 0), ReplyOk(Len(sent) + 1))
          /\ pc' = "sd1w"
       \/ /\ pc = "sd2"
          /\ send_now(Cmd("M665", 0, 0, 0, Fmt4(DEFAULT_DELTA_RADIUS), 0),
                      ReplyOk(Len(sent) + 1))
          /\ pc' = "sd2w"
       \/ /\ pc = "sd3"
          /\ send_now(Cmd("M206", 0, 0, 0, 0, 0), ReplyOk(Len(sent) + 1))
          /\ pc' = "sd3w"
    /\ UNCHANGED <<cstate, handlerVars, lpc, localVars, ghostVars>>

set_defaults_woken ==
    /\ cstate = "woken"
    /\ pc \in {"sd1w", "sd2w", "sd3w"}
    /\ pc' = CASE pc = "sd1w" -> "sd2"
               [] pc = "sd2w" -> "sd3"
               [] pc = "sd3w" -> AfterDefaults
    /\ cstate' = "run"
    /\ UNCHANGED <<handlerVars, linkVars, localVars, sent, lastSent, ghostVars>>

heat_bed_send ==
    /\ cstate = "run"
    /\ pc = "hb"
    /\ send_now(Cmd("M190", 0, 0, 0, 0, Fmt4(BED_TEMP_C * Scale)),
                ReplyM190(Len(sent) + 1))
    /\ pc' = "hbw"
    /\ observed' = <<>>
    /\ UNCHANGED <<cstate, handlerVars, lpc, localVars, wokenBy, races,
                   passes>>


\* heat_bed_woken returning after its first wait, whatever the line
heat_bed_woken_once ==
    /\ cstate = "woken"
    /\ pc = "hbw"
    /\ cstate' = "run"
    /\ observed' = Append(observed, last_line)
    /\ pc' = IF last_line = NoLine THEN "raised" ELSE "loop"
    /\ UNCHANGED <<handlerVars, linkVars, localVars, sent, lastSent, wokenBy,
                   races, passes>>

\* heat_bed after a wait: handler.last_line is read with the lock released.
heat_bed_woken ==
    /\ cstate = "woken"
    /\ pc = "hbw"
    /\ cstate' = "run"
    /\ observed' = Append(observed, last_line)
    /\ pc' = IF last_line = NoLine THEN "raised"
             ELSE IF IsComplete(last_line) THEN "loop"
             ELSE "hbw"
    /\ UNCHANGED <<handlerVars, linkVars, localVars, sent, lastSent, wokenBy,
                   races, passes>>

\* sendCommands_loop leaving the loop after the first pass, converged or not
sendCommands_loop_once ==
    /\ cstate = "run"
    /\ pc = "loop"
    /\ IF status.converged \/ passes > 0
       THEN pc' = "szo" /\ passes' = passes
       ELSE /\ passes < MaxPasses
            /\ passes' = passes + 1
            /\ pc' = "gh"
    /\ UNCHANGED <<cstate, handlerVars, linkVars, localVars, sent, lastSent,
                   observed, wokenBy, races>>

\* sendCommands: while not status['converged'], and what follows the loop
sendCommands_loop ==
    /\ cstate = "run"
    /\ pc = "loop"
    /\ IF status.converged
       THEN pc' = "szo" /\ passes' = passes
       ELSE /\ passes < MaxPasses
            /\ passes' = passes + 1
            /\ pc' = "gh"
    /\ UNCHANGED <<cstate, handlerVars, linkVars, localVars, sent, lastSent,
                   observed, wokenBy, races>>

\* go_home, called by fixDeltaCalibration ("gh") and at the end of
\* sendCommands ("ghf")
go_home_send ==
    /\ cstate = "run"
    /\ pc \in {"gh", "ghf"}
    /\ send_now(Cmd("G28", 0, 0, 0, 0, 0), ReplyOk(Len(sent) + 1))
    /\ pc' = IF pc = "gh" THEN "ghw" ELSE "ghfw"
    /\ UNCHANGED <<cstate, handlerVars, lpc, localVars, ghostVars>>

go_home_woken ==
    /\ cstate = "woken"
    /\ pc \in {"ghw", "ghfw"}
    /\ cstate' = "run"
    /\ IF pc = "ghw"
       THEN pc' = "iter" /\ i' = 0
       ELSE pc' = "done" /\ i' = i
    /\ UNCHANGED <<handlerVars, linkVars, results, x, data, status, sent,
                   lastSent, ghostVars>>


\* fixDeltaCalibration_iter creating the data dict once, before the loop
fixDeltaCalibration_iter_keep ==
    /\ cstate = "run"
    /\ pc = "iter"
    /\ IF i < ProbeRuns
       THEN data' = (IF i = 0 THEN NewData ELSE data) /\ pc' = "ral"
       ELSE data' = data /\ pc' = "cv"
    /\ UNCHANGED <<cstate, handlerVars, linkVars, results, x, i, status, sent,
                   lastSent, ghostVars>>

\* fixDeltaCalibration: for i in range(0, 3) with its fresh data dict
fixDeltaCalibration_iter ==
    /\ cstate = "run"
    /\ pc = "iter"
    /\ IF i < ProbeRuns
       THEN data' = NewData /\ pc' = "ral"
       ELSE data' = data /\ pc' = "cv"
    /\ UNCHANGED <<cstate, handlerVars, linkVars, results, x, i, status, sent,
                   lastSent, ghostVars>>

run_autolevel_send ==
    /\ cstate = "run"
    /\ pc = "ral"
    /\ send_now(Cmd("G29", 0, 0, 0, 0, 0), ReplyG29(Len(sent) + 1))
    /\ results' = <<>>
    /\ x' = 0
    /\ observed' = <<>>
    /\ pc' = "ralw"
    /\ UNCHANGED <<cstate, handlerVars, lpc, i, data, status, wokenBy, races,
                   passes>>

\* Collect putting the newest value first
CollectReversed(res, l) == IF IsG29(l) THEN <<Float(l.c)>> \o res ELSE res

\* run_autolevel's results after it has read line l
Collect(res, l) == IF IsG29(l) THEN Append(res, Float(l.c)) ELSE res

\* run_autolevel after a wait: handler.last_line is read under the lock.
run_autolevel_woken ==
    /\ cstate = "woken"
    /\ pc = "ralw"
    /\ cstate' = "run"
    /\ observed' = Append(observed, last_line)
    /\ IF last_line = NoLine
       THEN pc' = "raised" /\ UNCHANGED <<results, x>>
       ELSE IF IsComplete(last_line)
       THEN pc' = "chk" /\ UNCHANGED <<results, x>>
       ELSE /\ results' = Collect(results, last_line)
            /\ x' = x + 1
            /\ pc' = IF x + 1 = AutolevelWaits THEN "chk" ELSE "ralw"
    /\ UNCHANGED <<handlerVars, linkVars, i, data, status, sent, lastSent,
                   wokenBy, races, passes>>

\* fixDeltaCalibration_check skipping a bad probe run instead of raising
fixDeltaCalibration_check_skip ==
    /\ cstate = "run"
    /\ pc = "chk"
    /\ data' = IF Len(results) = ResultCount
               THEN [data EXCEPT !.datapoints = Append(@, Datapoint(results))]
               ELSE data
    /\ i' = i + 1
    /\ pc' = "iter"
    /\ UNCHANGED <<cstate, handlerVars, linkVars, results, x, status, sent,
                   lastSent, ghostVars>>

\* fixDeltaCalibration: if len(results) == 8 ... else raise
fixDeltaCalibration_check ==
    /\ cstate = "run"
    /\ pc = "chk"
    /\ IF Len(results) = ResultCount
       THEN /\ data' = [data EXCEPT !.datapoints = Append(@, Datapoint(results))]
            /\ i' = i + 1
            /\ pc' = "iter"
       ELSE /\ pc' = "raised"
            /\ UNCHANGED <<data, i>>
    /\ UNCHANGED <<cstate, handlerVars, linkVars, results, x, status, sent,
                   lastSent, ghostVars>>

\* fixDeltaCalibration: computeVariance and printReport
fixDeltaCalibration_stats ==
    /\ cstate = "run"
    /\ pc = "cv"
    /\ data' = computeVariance(data, status).data
    /\ status' = computeVariance(data, status).status
    /\ pc' = "qp"
    /\ UNCHANGED <<cstate, handlerVars, linkVars, results, x, i, sent, lastSent,
                   ghostVars>>

queryPrinter_send ==
    /\ cstate = "run"
    /\ pc = "qp"
    /\ send_now(Cmd("M503", 0, 0, 0, 0, 0), ReplyM503(Len(sent) + 1))
    /\ observed' = <<>>
    /\ pc' = "qpw"
    /\ UNCHANGED <<cstate, handlerVars, lpc, localVars, wokenBy, races,
                   passes>>

\* Parse starting a new record at every M666 report
ParseResetting(d, l) ==
    IF IsM666(l)
    THEN [d EXCEPT !.M666 = [set |-> TRUE, a |-> Float(l.a), b |-> Float(l.b),
                             c |-> Float(l.c)],
                   !.M665 = Unset]
    ELSE IF IsM665(l)
    THEN [d EXCEPT !.M665 = [set |-> TRUE, a |-> Float(l.a), b |-> Float(l.b),
                             c |-> Float(l.c)]]
    ELSE d

\* queryPrinter's data after it has read line l
Parse(d, l) ==
    IF IsM666(l)
    THEN [d EXCEPT !.M666 = [set |-> TRUE, a |-> Float(l.a), b |-> Float(l.b),
                             c |-> Float(l.c)]]
    ELSE IF IsM665(l)
    THEN [d EXCEPT !.M665 = [set |-> TRUE, a |-> Float(l.a), b |-> Float(l.b),
                             c |-> Float(l.c)]]
    ELSE d

\* LogSettings of a queryPrinter without the closing log(...)
LogSettingsAbsent(d) == TRUE

\* queryPrinter's closing log(...) reads all six values: it raises KeyError
\* unless both keys are there.
LogSettings(d) == d.M666.set /\ d.M665.set

\* queryPrinter after a wait: handler.last_line is read with the lock released.
queryPrinter_woken ==
    /\ cstate = "woken"
    /\ pc = "qpw"
    /\ cstate' = "run"
    /\ observed' = Append(observed, last_line)
    /\ IF last_line = NoLine
       THEN pc' = "raised" /\ data' = data
       ELSE IF IsComplete(last_line)
       THEN pc' = (IF LogSettings(data) THEN "ra" ELSE "raised") /\ data' = data
       ELSE pc' = "qpw" /\ data' = Parse(data, last_line)
    /\ UNCHANGED <<handlerVars, linkVars, results, x, i, status, sent, lastSent,
                   wokenBy, races, passes>>

runAdjustments ==
    /\ cstate = "run"
    /\ pc = "ra"
    /\ \/ /\ Adjustment(data) = "endstops"
          /\ pc' = "ao"
          /\ status' = status
       \/ /\ Adjustment(data) = "radius"
          /\ pc' = "adr"
          /\ status' = status
       \/ /\ Adjustment(data) = "none"
          /\ pc' = "loop"
          /\ status' = [status EXCEPT !.converged = TRUE]
    /\ UNCHANGED <<cstate, handlerVars, linkVars, results, x, i, data, sent,
                   lastSent, ghostVars>>

adjustOffsets_send ==
    /\ cstate = "run"
    /\ pc = "ao"
    /\ IF data.M666.set
       THEN /\ send_now(OffsetsCmd(data), ReplyOk(Len(sent) + 1))
            /\ pc' = "aow"
       ELSE /\ pc' = "raised"
            /\ UNCHANGED <<sent, lastSent, wire>>
    /\ UNCHANGED <<cstate, handlerVars, lpc, localVars, ghostVars>>

adjustDeltaRadius_send ==
    /\ cstate = "run"
    /\ pc = "adr"
    /\ IF data.M665.set
       THEN /\ send_now(RadiusCmd(data), ReplyOk(Len(sent) + 1))
            /\ pc' = "adrw"
       ELSE /\ pc' = "raised"
            /\ UNCHANGED <<sent, lastSent, wire>>
    /\ UNCHANGED <<cstate, handlerVars, lpc, localVars, ghostVars>>

\* adjustOffsets or adjustDeltaRadius returns, runAdjustments returns False
runAdjustments_woken ==
    /\ cstate = "woken"
    /\ pc \in {"aow", "adrw"}
    /\ cstate' = "run"
    /\ status' = [status EXCEPT !.converged = FALSE]
    /\ pc' = "loop"
    /\ UNCHANGED <<handlerVars, linkVars, results, x, i, data, sent, lastSent,
                   ghostVars>>

set_z_offset_send ==
    /\ cstate = "run"
    /\ pc = "szo"
    /\ send_now(ZOffsetCmd(data), ReplyOk(Len(sent) + 1))
    /\ pc' = "szow"
    /\ UNCHANGED <<cstate, handlerVars, lpc, localVars, ghostVars>>

save_settings_send ==
    /\ cstate = "run"
    /\ pc = "ss"
    /\ send_now(Cmd("M500", 0, 0, 0, 0, 0), ReplyOk(Len(sent) + 1))
    /\ pc' = "ssw"
    /\ UNCHANGED <<cstate, handlerVars, lpc, localVars, ghostVars>>

\* set_z_offset and save_settings return after their wait
finalize_woken ==
    /\ cstate = "woken"
    /\ pc \in {"szow", "ssw"}
    /\ cstate' = "run"
    /\ pc' = IF pc = "szow" THEN "ss" ELSE "ghf"
    /\ UNCHANGED <<handlerVars, linkVars, localVars, sent, lastSent, ghostVars>>

Link == on_recv \/ on_recv_notify \/ on_online \/ on_error

Controller ==
    \/ lock_wait
    \/ sendCommands_online
    \/ set_defaults_send
    \/ set_defaults_woken
    \/ heat_bed_send
    \/ heat_bed_woken
    \/ sendCommands_loop
    \/ go_home_send
    \/ go_home_woken
    \/ fixDeltaCalibration_iter
    \/ run_autolevel_send
    \/ run_autolevel_woken
    \/ fixDeltaCalibration_check
    \/ fixDeltaCalibration_stats
    \/ queryPrinter_send
    \/ queryPrinter_woken
    \/ runAdjustments
    \/ adjustOffsets_send
    \/ adjustDeltaRadius_send
    \/ runAdjustments_woken
    \/ set_z_offset_send
    \/ save_settings_send
    \/ finalize_woken

Next == Link \/ Controller

Spec == Init /\ [][Next]_vars

\* ------------------------------------------------------------------ claims
\* The commands of the current pass: those sent after the last G28 (none
\* before the first G28, which is where the first pass begins).
PassCmds(q) ==
    LET homes == {j \in 1..Len(q) : q[j] = "G28"}
    IN  IF homes = {} THEN <<>>
        ELSE LET last == CHOOSE j \in homes : \A h \in homes : h <= j
             IN  SubSeq(q, last + 1, Len(q))

Count(q, op) == Cardinality({j \in 1..Len(q) : q[j] = op})
InSent(op) == \E j \in 1..Len(sent) : sent[j] = op

\* a pass has returned to the loop of sendCommands
PassReturned == pc = "loop" /\ passes > 0
\* inside a pass, from the statistics on
AfterStats == pc \in {"qp", "qpw", "ra", "ao", "aow", "adr", "adrw"}

AxisExceeds(d) ==
    \E a \in Axes : Abs(d.high_point - d[a]) > TOLERANCE_MM
WithinTolerance(d) ==
    /\ \A a \in Axes : Abs(d.high_point - d[a]) <= TOLERANCE_MM
    /\ Abs(d.c_offset) <= TOLERANCE_MM

\* C1: when a pass has returned, status['converged'] is true if and only if
\* the three axis deviations from high_point and c_offset of that pass are
\* all within TOLERANCE_MM.
C1_ConvergedIffWithinTolerance ==
    PassReturned => (status.converged <=> WithinTolerance(data))

C1_Witness ==
    /\ PassReturned
    /\ status.converged
    /\ data.c_offset # 0
    /\ data.high_point # data.y_avg

\* C2: a pass sends at most one corrective command, and a pass in which an
\* axis deviation exceeds the tolerance sends M666, sends no M665 and returns
\* converged = false, whatever c_offset is.
C2_OneCorrectionEndstopsFirst ==
    /\ Count(PassCmds(sent), "M666") + Count(PassCmds(sent), "M665") <= 1
    /\ (AfterStats \/ PassReturned) /\ AxisExceeds(data)
         => Count(PassCmds(sent), "M665") = 0
    /\ PassReturned /\ AxisExceeds(data)
         => Count(PassCmds(sent), "M666") = 1 /\ ~status.converged

C2_Witness ==
    /\ PassReturned
    /\ AxisExceeds(data)
    /\ Abs(data.c_offset) > TOLERANCE_MM
    /\ lastSent.op = "M666"
    /\ ~status.converged

\* C3: status['ref_axis'] changes only in the computeVariance call of the
\* first pass, and once it is set no step changes it.
C3_RefAxisSetOnce ==
    [][ /\ status.ref_axis # NoAxis => status'.ref_axis = status.ref_axis
        /\ status'.ref_axis # status.ref_axis => pc = "cv" /\ passes = 1 ]_vars

C3_Witness ==
    /\ passes = 2
    /\ pc = "qp"
    /\ status.ref_axis = "z_avg"
    /\ data.x_avg > data.z_avg
    /\ data.high_point = data.z_avg

\* C4: every notification of the link, a line or an error, delivered while
\* the controller is blocked in lock.wait() wakes it; a delivered line is
\* what the slot then holds.
C4_EveryEventWakes ==
    [][ /\ (lpc = "idle" /\ lpc' = "notify") => last_line' = Head(wire)
        /\ ( \/ (lpc = "notify" /\ lpc' = "idle")
             \/ (~error /\ error') ) /\ cstate = "wait"
             => cstate' = "woken" ]_vars

\* C5: every line still on the wire answers the command sent last, and the
\* event that wakes the controller is a reply to the command sent last.
C5_OneCommandInFlight ==
    /\ \A j \in 1..Len(wire) : wire[j].cmd = Len(sent)
    /\ cstate = "woken" => wokenBy = Len(sent)

\* the Z fields of the coordinate reports in q, in order
RECURSIVE ZFields(_)
ZFields(q) ==
    IF q = <<>> THEN <<>>
    ELSE (IF q[1].k = "bed" THEN <<q[1].c>> ELSE <<>>) \o ZFields(Tail(q))

Markers(q) == {j \in 1..Len(q) : q[j].k = "ok"}

\* C6: when run_autolevel has returned, its results are the Z fields of the
\* coordinate reports it read, in the order it read them; it read at most
\* one marker, as its last line, and without a marker exactly 13 lines; from
\* 8 reports and the marker it returns the 8 values.
C6_ResultsAreObservedZ ==
    pc = "chk" =>
        /\ results = ZFields(observed)
        /\ Markers(observed) \subseteq {Len(observed)}
        /\ Markers(observed) = {} => Len(observed) = AutolevelWaits
        /\ \A s \in Samples :
             Len(observed) = 9 /\ observed[9].k = "ok"
               /\ SubSeq(observed, 1, 8) = Bed(s, Len(sent))
               => results = s

C6_Witness ==
    /\ pc = "chk"
    /\ observed = Bed(SampleLevel, Len(sent)) \o <<Ok(Len(sent))>>
    /\ results = SampleLevel

\* C7: once a probe run has returned with other than 8 values, the next step
\* of the controller raises, and after an exception no command is sent and
\* data is not touched.
C7_BadCountAborts ==
    [][ /\ pc = "chk" /\ Len(results) # ResultCount
          => pc' \in {"chk", "raised"} /\ sent' = sent /\ data' = data
        /\ pc = "raised"
          => pc' = "raised" /\ sent' = sent /\ data' = data ]_vars

C7_Witness ==
    /\ pc = "raised"
    /\ lastSent.op = "G29"
    /\ Len(results) = 7
    /\ data.datapoints = <<>>

\* C8: M500 has been sent only if a pass returned converged = true, and a
\* session that ended with an exception has not sent it.
C8_SaveOnlyAfterConverged ==
    /\ InSent("M500") => status.converged
    /\ pc = "raised" => ~InSent("M500")

C8_Witness ==
    /\ InSent("M500")
    /\ status.converged
    /\ passes = 2

\* the lines of kind k that the running receive loop has read
Seen(k) == {j \in 1..Len(observed) : observed[j].k = k}
\* field f of data holds the three values of the line read at position j
Holds(f, j) ==
    f = [set |-> TRUE, a |-> observed[j].a, b |-> observed[j].b,
         c |-> observed[j].c]
\* queryPrinter has read the marker: it has returned or raised
QueryOver == lastSent.op = "M503" /\ pc # "qpw"

\* C9: when queryPrinter has read one M666 report and one M665 report before
\* the marker, in either order and among any other lines, it returns with
\* the six values of the two reports in data.
C9_ReportsInAnyOrder ==
    QueryOver /\ Cardinality(Seen("m666")) = 1 /\ Cardinality(Seen("m665")) = 1
      => /\ pc # "raised"
         /\ \A j \in Seen("m666") : Holds(data.M666, j)
         /\ \A j \in Seen("m665") : Holds(data.M665, j)

C9_Witness ==
    /\ pc = "ra"
    /\ Len(observed) = 3
    /\ observed[1].k = "m665"
    /\ observed[2].k = "m666"
    /\ data.M666.a # 0
    /\ data.M666.a # data.M666.c
    /\ data.M665.b # data.M665.a

\* C10: a queryPrinter that read the marker without having read an M666
\* report and an M665 report raises, and runAdjustments, adjustOffsets and
\* adjustDeltaRadius only run with both records read in the query of the
\* same pass.
C10_MissingReportIsFatal ==
    /\ QueryOver /\ (Seen("m666") = {} \/ Seen("m665") = {}) => pc = "raised"
    /\ pc \in {"ra", "ao", "aow", "adr", "adrw"}
         => /\ \E j \in Seen("m666") : Holds(data.M666, j)
            /\ \E j \in Seen("m665") : Holds(data.M665, j)

C10_Witness ==
    /\ pc = "raised"
    /\ lastSent.op = "M503"
    /\ Seen("m666") # {}
    /\ Seen("m665") = {}
    /\ observed[Len(observed)].k = "ok"
    /\ adjust_endstops(data)
    /\ Count(PassCmds(sent), "M666") = 0


\* ------------------------------------------- the statistics of one pass
\* The readings a probe run can return, in steps of 0.05 mm.
Readings == {mm(50 * k) : k \in 0..MaxReading}

\* The commands of a session up to the third probe run of its first pass.
SentToThirdProbe ==
    <<"M666", "M665", "M206", "M190", "G28", "G29", "G29", "G29">>

\* fixDeltaCalibration in the last iteration of the session's first pass,
\* run_autolevel having returned any 8 readings.
InitStats ==
    /\ pc = "chk"
    /\ cstate = "run"
    /\ results \in [1..ResultCount -> Readings]
    /\ last_line = Ok(Len(SentToThirdProbe))
    /\ error = FALSE
    /\ wire = <<>>
    /\ lpc = "idle"
    /\ x = ResultCount + 1
    /\ i = ProbeRuns - 1
    /\ data = NewData
    /\ status = [converged |-> FALSE, ref_axis |-> NoAxis]
    /\ sent = SentToThirdProbe
    /\ lastSent = Cmd("G29", 0, 0, 0, 0, 0)
    /\ observed = Bed(results, Len(SentToThirdProbe))
                      \o <<Ok(Len(SentToThirdProbe))>>
    /\ wokenBy = Len(SentToThirdProbe)
    /\ races = 0
    /\ passes = 1

NextStats ==
    \/ fixDeltaCalibration_check
    \/ fixDeltaCalibration_iter
    \/ fixDeltaCalibration_stats

SpecStats == InitStats /\ [][NextStats]_vars

\* C11: once computeVariance has run on the 8 readings of a probe run, each
\* axis mean (Z, X, Y, C) is the arithmetic average of that axis's two
\* readings and each axis variance is the population variance of the two:
\* the sum of the two squared deviations from the mean, divided by 2.
C11_MeanAndPopulationVariance ==
    pc = "qp" =>
        \A a \in {<<"z_avg", "z_var", 1>>, <<"x_avg", "x_var", 3>>,
                  <<"y_avg", "y_var", 5>>, <<"c_avg", "c_var", 7>>} :
            LET r1 == results[a[3]]
                r2 == results[a[3] + 1]
                avg == data[a[1]]
            IN  /\ 2 * avg = r1 + r2
                /\ 2 * data[a[2]] = (r1 - avg) * (r1 - avg)
                                      + (r2 - avg) * (r2 - avg)

C11_Witness ==
    /\ pc = "qp"
    /\ results[1] # results[2]
    /\ data.z_var > 0
    /\ results[3] = results[4]
    /\ data.x_var = 0


\* C12: once the statistics of a pass are computed, high_point is that pass's
\* mean of the reference axis and c_offset is c_avg - high_point; in the
\* first pass of the session the reference axis is one whose mean is at least
\* the means of the other two.  For the readings z = (0.10, 0.12),
\* x = (0.08, 0.09), y = (0.05, 0.06), c = (0.09, 0.09) of a first pass: the
\* reference is Z, high_point 0.11, c_offset -0.02, and the pass returns with
\* an endstop correction sent and converged false.
C12_ReferenceAxisAndHighPoint ==
    (AfterStats \/ PassReturned) =>
        /\ status.ref_axis \in Axes
        /\ data.high_point = data[status.ref_axis]
        /\ data.c_offset = data.c_avg - data.high_point
        /\ passes = 1 => \A a \in Axes : data[status.ref_axis] >= data[a]
        /\ (passes = 1 /\ data.datapoints = <<Datapoint(SampleWorked)>>) =>
               /\ status.ref_axis = "z_avg"
               /\ data.high_point = mm(110)
               /\ data.c_offset = -mm(20)
               /\ PassReturned =>
                      /\ ~status.converged
                      /\ PassCmds(sent)[Len(PassCmds(sent))] = "M666"
                      /\ Count(PassCmds(sent), "M666") = 1

C12_Witness ==
    /\ PassReturned
    /\ passes = 1
    /\ data.datapoints = <<Datapoint(SampleWorked)>>
    /\ lastSent.op = "M666"
    /\ data.high_point = mm(110)


\* a step in which the handler calls lock.notify()
NotifyStep ==
    \/ lpc = "notify" /\ lpc' = "idle"
    \/ /\ lpc = "idle"
       /\ wire # <<>>
       /\ Head(wire).k = "online"
       /\ wire' = Tail(wire)

\* C13: a notification delivered while the controller is not blocked in
\* wait() wakes no one and leaves no trace for the controller; a wait ends
\* only by a notification delivered while the controller is blocked in it;
\* the only place with two waits in a row is the startup, before the first
\* command is sent.  (The witness is the hazard: the reply of the first
\* command notified before the controller waited, and the controller blocked
\* with nothing more to come.)
C13_LostWakeup ==
    [][ /\ (NotifyStep /\ cstate # "wait") =>
               /\ cstate' = cstate
               /\ pc' = pc
               /\ wokenBy' = wokenBy
        /\ (cstate' = "woken" /\ cstate # "woken") =>
               cstate = "wait" /\ NotifyStep
        /\ (cstate = "woken" /\ cstate' = "wait") =>
               pc = "online1" /\ pc' = "online2" /\ sent = <<>>
        /\ (sent = <<>> /\ sent' # <<>>) => pc = AfterOnline
      ]_vars

C13_Witness ==
    /\ pc = "sd1w"
    /\ cstate = "wait"
    /\ lpc = "idle"
    /\ wire = <<>>
    /\ last_line = Ok(1)
    /\ wokenBy = 0
    /\ races = 1


\* the probe runs of a pass are over
ProbesOver == pc = "cv" \/ AfterStats \/ PassReturned
\* the settings query of a pass has been sent
QuerySent == pc \in {"qpw", "ra", "ao", "aow", "adr", "adrw"} \/ PassReturned

\* C14 as claimed: a pass that has returned issued the probe command exactly
\* once, then one settings query, and its statistics are those of that probe
\* run's 8 values.
C14_OneProbePerPass ==
    PassReturned =>
        /\ Count(PassCmds(sent), "G29") = 1
        /\ SubSeq(PassCmds(sent), 1, 2) = <<"G29", "M503">>
        /\ data.datapoints = <<Datapoint(results)>>

\* C14: each pass issues the probe command three times in a row, then one
\* settings query, then at most one correction chosen by the planning step;
\* every probe run starts with no datapoint kept from the run before, and
\* the statistics of the pass are computed from the 8 values of the last of
\* the three probe runs alone.
C14_ThreeProbesLastUsed ==
    /\ pc \in {"ral", "ralw", "chk"} => data.datapoints = <<>>
    /\ ProbesOver =>
           /\ Count(PassCmds(sent), "G29") = ProbeRuns
           /\ SubSeq(PassCmds(sent), 1, ProbeRuns) = <<"G29", "G29", "G29">>
           /\ data.datapoints = <<Datapoint(results)>>
    /\ pc \in {"cv", "qp"} => Len(PassCmds(sent)) = ProbeRuns
    /\ QuerySent =>
           /\ Count(PassCmds(sent), "M503") = 1
           /\ PassCmds(sent)[ProbeRuns + 1] = "M503"
           /\ Len(PassCmds(sent)) \in {ProbeRuns + 1, ProbeRuns + 2}
           /\ Len(PassCmds(sent)) = ProbeRuns + 2 =>
                  /\ pc \in {"aow", "adrw", "loop"}
                  /\ PassCmds(sent)[ProbeRuns + 2] \in {"M666", "M665"}
    /\ (AfterStats \/ PassReturned) =>
           /\ 2 * data.z_avg = results[1] + results[2]
           /\ 2 * data.x_avg = results[3] + results[4]
           /\ 2 * data.y_avg = results[5] + results[6]
           /\ 2 * data.c_avg = results[7] + results[8]

C14_Witness ==
    /\ pc = "ra"
    /\ passes = 2
    /\ PassCmds(sent) = <<"G29", "G29", "G29", "M503">>
    /\ data.datapoints = <<Datapoint(SampleXHigh)>>
    /\ 2 * data.x_avg = mm(300)


\* C15: when an endstop correction has been sent, it is the one command
\* M666 and its X, Y and Z values are the trims of an M666 report that
\* queryPrinter read in this pass, in reply to this pass's M503, plus the
\* axis mean minus high_point of this pass.
C15_TrimsFromThisPass ==
    pc = "aow" =>
        /\ lastSent.op = "M666"
        /\ sent[Len(sent)] = "M666"
        /\ sent[Len(sent) - 1] = "M503"
        /\ Count(PassCmds(sent), "M666") = 1
        /\ \E j \in Seen("m666") :
               /\ observed[j].cmd = Len(sent) - 1
               /\ lastSent.x = observed[j].a + (data.x_avg - data.high_point)
               /\ lastSent.y = observed[j].b + (data.y_avg - data.high_point)
               /\ lastSent.z = observed[j].c + (data.z_avg - data.high_point)

C15_Witness ==
    /\ pc = "aow"
    /\ passes = 2
    /\ data.M666.a = SettingsTrimmed.m666[1]
    /\ lastSent.x = SettingsTrimmed.m666[1] + (data.x_avg - data.high_point)
    /\ data.x_avg # data.high_point
    /\ data.y_avg # data.high_point


\* the commands sent after the last settings query
AfterQuery(q) ==
    LET qs == {j \in 1..Len(q) : q[j] = "M503"}
    IN  IF qs = {} THEN <<>>
        ELSE LET last == CHOOSE j \in qs : \A h \in qs : h <= j
             IN  SubSeq(q, last + 1, Len(q))

\* what sendCommands has sent after its loop, by the place it has reached
Finalization ==
    [szo |-> <<>>, szow |-> <<"M206">>, ss |-> <<"M206">>,
     ssw |-> <<"M206", "M500">>, ghf |-> <<"M206", "M500">>,
     ghfw |-> <<"M206", "M500", "G28">>, done |-> <<"M206", "M500", "G28">>]

Max3(a, b, c) ==
    LET m == IF a >= b THEN a ELSE b
    IN  IF m >= c THEN m ELSE c

\* C16: after the loop of sendCommands (left only with converged true) the
\* controller has sent nothing since the last pass's query but, in this
\* order and once each, M206 Z, M500 and G28; the M206 carries
\* z_offset = -(max(z_avg, x_avg, y_avg) + Z_OFFSET) of the last pass's
\* means; once done, it sends nothing more.
C16_FinalSequence ==
    [][ /\ pc' \in DOMAIN Finalization =>
               /\ status'.converged
               /\ AfterQuery(sent') = Finalization[pc']
        /\ pc' \in {"szow", "ss"} =>
               lastSent' = Cmd("M206", 0, 0,
                               -(Max3(data'.z_avg, data'.x_avg, data'.y_avg)
                                   + Z_OFFSET), 0, 0)
        /\ pc = "done" => pc' = "done" /\ sent' = sent
      ]_vars

C16_Witness ==
    /\ pc = "done"
    /\ status.converged
    /\ AfterQuery(sent) = <<"M206", "M500", "G28">>
    /\ data.y_avg > data.z_avg
    /\ data.y_avg > data.x_avg


\* the controller's places inside the calibration loop
LoopPcs == {"loop", "gh", "ghw", "iter", "ral", "ralw", "chk", "cv", "qp",
            "qpw", "ra", "ao", "aow", "adr", "adrw"}

Stalled == cstate = "wait" /\ wire = <<>> /\ lpc = "idle"

\* C18: no wait has a timeout.  A controller blocked in lock.wait() stays
\* where it is, and sends nothing, in every step that is not a notify of the
\* handler; if the link has no event left to deliver it stays blocked for
\* ever, so it never reaches the end of sendCommands.  The end is reached
\* only by a controller that is running (its last wait was signalled) with
\* status['converged'] true after at least one pass.
C18_NoTimeout ==
    [][ /\ (cstate = "wait" /\ ~NotifyStep) =>
               cstate' = "wait" /\ pc' = pc /\ sent' = sent
        /\ Stalled => Stalled' /\ pc' = pc /\ sent' = sent /\ pc # "done"
        /\ pc' = "done" =>
               cstate' = "run" /\ status'.converged /\ passes' >= 1
      ]_vars

C18_Witness ==
    /\ Stalled
    /\ pc = "ralw"
    /\ lastSent.op = "G29"
    /\ last_line.cmd = Len(sent)
    /\ error


\* the trim of axis a in an M666 report or command (fields a, b, c or x, y, z)
ReportedTrim(l, a) ==
    CASE a = "x_avg" -> l.a [] a = "y_avg" -> l.b [] a = "z_avg" -> l.c
SentTrim(c, a) ==
    CASE a = "x_avg" -> c.x [] a = "y_avg" -> c.y [] a = "z_avg" -> c.z

\* C19: an endstop correction leaves the trim of the session's reference
\* axis as the printer reported it in this pass: the value the M666 command
\* carries for that axis is the reported one, in the first pass and in later
\* passes alike.
C19_ReferenceTrimKept ==
    (pc = "aow" /\ lastSent.op = "M666") =>
        /\ status.ref_axis \in Axes
        /\ \E j \in Seen("m666") :
               /\ observed[j].cmd = Len(sent) - 1
               /\ SentTrim(lastSent, status.ref_axis)
                      = ReportedTrim(observed[j], status.ref_axis)
               /\ \A a \in Axes :
                      SentTrim(lastSent, a) # ReportedTrim(observed[j], a)
                          => a # status.ref_axis

C19_Witness ==
    /\ pc = "aow"
    /\ passes = 2
    /\ status.ref_axis = "z_avg"
    /\ data.x_avg > data.z_avg
    /\ data.M666.c = SettingsTrimmed.m666[3]
    /\ lastSent.z = SettingsTrimmed.m666[3]
    /\ lastSent.x > data.M666.a


\* C20: while queryPrinter is reading the reply to M503, every line the link
\* delivers is examined once and in arrival order: each notify wakes the
\* blocked controller, and the slot is not written again between that
\* wake-up and the controller's read of it (the line examined is the one
\* whose notify woke the controller).
C20_EveryLineExaminedOnce ==
    [][ pc = "qpw" =>
          /\ NotifyStep => cstate = "wait" /\ cstate' = "woken"
          /\ (lpc = "idle" /\ lpc' = "notify") => cstate # "woken"
      ]_vars

====
